---- MODULE Spec2Model ----
(***************************************************************************)
(* Scientific conference management API: the three route modules           *)
(* (scientists, conferences, participations) over the relational store.    *)
(*                                                                         *)
(* Text values are sequences of one-character strings, so that substring   *)
(* filters and parseInt are computed rather than assumed.  A JavaScript    *)
(* number is a record [k, v]: k = "num" with the integer v, or k = "NaN",  *)
(* or k = "Inf" with the sign v.                                           *)
(***************************************************************************)
EXTENDS Integers, Sequences, FiniteSets, TLC

(***************************************************************************)
(* Bounds of the model.                                                    *)
(***************************************************************************)
MaxScientists == 2
MaxConferences == 2
MaxParticipations == 2
\* Rows of each table in the seeded stores of the list specification.
MaxSeed == 3

(***************************************************************************)
(* Text constants.                                                         *)
(***************************************************************************)
\* The SQL NULL of a nullable text column: no text holds this token.
NULL == <<"NULL">>

T_Ann == <<"A", "n">>
T_Bob == <<"B", "o">>
T_US == <<"U", "S">>
T_DE == <<"D", "E">>
T_PhD == <<"P", "h">>
T_MSc == <<"M", "S">>
T_constructor == <<"c", "o", "n", "s", "t", "r", "u", "c", "t", "o", "r">>
T_AI == <<"A", "I">>
T_Bio == <<"B", "i">>
T_MIT == <<"M", "I">>
T_ETH == <<"E", "T">>
T_Mail == <<"b", "@", "e">>
T_Orcid == <<"0", "1">>
T_Talk == <<"T", "a">>
T_Demo == <<"D", "e">>
T_Keynote == <<"K", "e">>
T_Poster == <<"P", "o">>
T_confirmed == <<"c", "o", "n">>
T_pending == <<"p", "e", "n">>
T_Boston == <<"B", "s">>
T_Berlin == <<"B", "e">>
T_ConfA == <<"C", "A">>
T_ConfB == <<"C", "B">>
T_empty == <<>>

(***************************************************************************)
(* JSON values of the metadata column.                                     *)
(***************************************************************************)
JNull == [t |-> "null", v |-> <<>>]
JObject(doc) == [t |-> "object", v |-> doc]
JString(s) == [t |-> "string", v |-> s]
\* A request field that JavaScript sees as undefined.
Undefined == [t |-> "undefined", v |-> <<>>]

M_Rating == JObject(<<"r", "5">>)
M_Tags == JObject(<<"A", "I">>)

(***************************************************************************)
(* Dates.  An ISO-8601 text is [t, ms]: the instant t (an integer) and     *)
(* whether the text carries the millisecond part.  A stored timestamp is   *)
(* the instant alone.                                                      *)
(***************************************************************************)
IsoText(t, ms) == [t |-> t, ms |-> ms]

VARIABLES
    scientists,          \* table Scientist: id -> row
    conferences,         \* table Conference: id -> row
    participations,      \* table Participation: id -> row
    nextScientistId,     \* the id sequences of the three tables
    nextConferenceId,
    nextParticipationId,
    deletedScientists,   \* history: ids whose DELETE was answered 200
    deletedConferences,
    issued,              \* the store queries the last request issued
    response,            \* the last response sent
    inflight             \* a list or statistics request between its queries

vars == <<scientists, conferences, participations, nextScientistId,
          nextConferenceId, nextParticipationId, deletedScientists,
          deletedConferences, issued, response, inflight>>

tables == <<scientists, conferences, participations, nextScientistId,
            nextConferenceId, nextParticipationId>>

(***************************************************************************)
(* Tables as functions from the ids of the stored rows to the rows.        *)
(***************************************************************************)
EmptyTable == [i \in {} |-> 0]
Put(table, id, row) ==
    [i \in DOMAIN table \cup {id} |-> IF i = id THEN row ELSE table[i]]
Remove(table, id) == [i \in DOMAIN table \ {id} |-> table[i]]
Has(data, f) == f \in DOMAIN data
\* The value of an optional request field, or the fallback when it is absent.
Field(data, f, fallback) == IF Has(data, f) THEN data[f] ELSE fallback
\* Mutant: a full replacement, the nullable columns left out become NULL.
Merge_replacing(row, data) ==
    [f \in DOMAIN row |->
        IF Has(data, f) THEN data[f]
        ELSE IF f \in {"email", "orcid"} THEN NULL ELSE row[f]]

\* A partial update: the fields given replace the row's, the others stay.
Merge(row, data) ==
    [f \in DOMAIN row |-> IF Has(data, f) THEN data[f] ELSE row[f]]

NoBody == [none |-> TRUE]

(***************************************************************************)
(* The store: rows, defaults, id sequences and foreign keys of the schema. *)
(***************************************************************************)
\* Scientist row as the store inserts it: nullable columns NULL, hIndex 0.
scientist_row(id, data) ==
    [id |-> id,
     fullName |-> data.fullName,
     country |-> data.country,
     degree |-> data.degree,
     specialization |-> data.specialization,
     organization |-> data.organization,
     email |-> Field(data, "email", NULL),
     orcid |-> Field(data, "orcid", NULL),
     hIndex |-> Field(data, "hIndex", 0)]

conference_row(id, data) ==
    [id |-> id,
     topic |-> data.topic,
     name |-> data.name,
     date |-> data.date,
     country |-> data.country,
     location |-> data.location,
     capacity |-> Field(data, "capacity", 0)]

\* An undefined metadata is not written: the column stays SQL NULL.
participation_row(id, data) ==
    [id |-> id,
     talkTitle |-> data.talkTitle,
     participationType |-> data.participationType,
     durationMinutes |-> data.durationMinutes,
     scientistId |-> data.scientistId,
     conferenceId |-> data.conferenceId,
     status |-> data.status,
     metadata |-> IF data.metadata = Undefined THEN JNull ELSE data.metadata]

ReferencesScientist(id) ==
    \E p \in DOMAIN participations : participations[p].scientistId = id
ReferencesConference(id) ==
    \E p \in DOMAIN participations : participations[p].conferenceId = id

\* Foreign keys of Participation: both must name a stored row.
ForeignKeysHold(row) ==
    /\ row.scientistId \in DOMAIN scientists
    /\ row.conferenceId \in DOMAIN conferences

\* Mutant: the insert does not check the foreign keys.
participation_create_error_unchecked(data) == "None"

\* Outcome of the store's insert of a participation.
participation_create_error(data) ==
    IF ForeignKeysHold(data) THEN "None" ELSE "ConstraintViolation"

\* Outcome of the store's update of one row by id.
update_error(table, id) ==
    IF id \in DOMAIN table THEN "None" ELSE "NotFound"

participation_update_error(id, data) ==
    IF id \notin DOMAIN participations THEN "NotFound"
    ELSE IF ForeignKeysHold(Merge(participations[id], data)) THEN "None"
    ELSE "ConstraintViolation"

\* Mutant: the delete does not restrict on referencing rows.
delete_error_unrestricted(table, id, referenced) ==
    IF id \notin DOMAIN table THEN "NotFound" ELSE "None"

\* Outcome of the store's delete of one row by id: restrict-on-delete.
delete_error(table, id, referenced) ==
    IF id \notin DOMAIN table THEN "NotFound"
    ELSE IF referenced THEN "ConstraintViolation"
    ELSE "None"

\* No request is being answered: the last response has left the server.
NoReply ==
    [op |-> "none", status |-> 0, id |-> 0, req |-> NoBody, body |-> NoBody,
     msg |-> "", err |-> "None"]
Idle == response = NoReply

\* No list or statistics request is waiting for the store.
NoRequest == [op |-> "none"]

\* The response is sent and the client may send its next request.
Sent ==
    /\ ~Idle
    /\ response' = NoReply
    /\ issued' = <<>>
    /\ UNCHANGED <<tables, deletedScientists, deletedConferences, inflight>>

\* findUnique: the row, or null.
findUnique(table, id) == IF id \in DOMAIN table THEN table[id] ELSE NoBody

(***************************************************************************)
(* Requests the clients send: bodies that pass the routes' schemas.        *)
(***************************************************************************)
ScientistIds == 1..(MaxScientists + 1)
ConferenceIds == 1..(MaxConferences + 1)
ParticipationIds == 1..(MaxParticipations + 1)

ScientistBodies ==
    { [fullName |-> T_Ann, country |-> T_US, degree |-> T_PhD,
       specialization |-> T_AI, organization |-> T_MIT],
      [fullName |-> T_Bob, country |-> T_DE, degree |-> T_MSc,
       specialization |-> T_Bio, organization |-> T_ETH,
       email |-> T_Mail, orcid |-> T_Orcid, hIndex |-> 7] }

\* The fields of the update schemas; z.object drops every other key of a
\* request body, so c.req.valid('json') holds these fields only.
UpdateScientistSchema ==
    {"fullName", "country", "degree", "specialization", "organization",
     "email", "orcid", "hIndex"}
UpdateConferenceSchema ==
    {"topic", "name", "date", "country", "location", "capacity"}
UpdateParticipationSchema ==
    {"talkTitle", "participationType", "durationMinutes", "scientistId",
     "conferenceId", "status", "metadata"}

\* Mutant: the schema is a passthrough object and keeps unknown keys.
validJson_passthrough(schema, body) == body

\* c.req.valid('json'): the parsed body, unknown keys stripped.
validJson(schema, body) == [f \in DOMAIN body \cap schema |-> body[f]]

\* Bodies of PUT requests as the clients send them; some carry an id.
ScientistPatches ==
    { [id |-> MaxScientists, hIndex |-> 3, organization |-> T_ETH] }

ConferenceBodies ==
    { [topic |-> T_AI, name |-> T_ConfA, date |-> IsoText(10, FALSE),
       country |-> T_US, location |-> T_Boston],
      [topic |-> T_Bio, name |-> T_ConfB, date |-> IsoText(20, TRUE),
       country |-> T_DE, location |-> T_Berlin, capacity |-> 5] }

ConferencePatches ==
    { [id |-> MaxConferences, date |-> IsoText(30, FALSE), capacity |-> 9,
       topic |-> T_constructor] }

ParticipationBodies ==
    { [talkTitle |-> T_Talk, participationType |-> T_Keynote,
       durationMinutes |-> 30, scientistId |-> 1, conferenceId |-> c,
       metadata |-> M_Rating] : c \in ConferenceIds }
    \cup
    { [talkTitle |-> T_Talk, participationType |-> T_Keynote,
       durationMinutes |-> 30, scientistId |-> MaxScientists + 1,
       conferenceId |-> 1, metadata |-> M_Rating] }
    \cup
    \* status: z.string().optional() admits the empty text
    { [talkTitle |-> T_Talk, participationType |-> T_Keynote,
       durationMinutes |-> 30, scientistId |-> 1, conferenceId |-> 1,
       status |-> T_empty, metadata |-> M_Rating] }
    \cup
    { [talkTitle |-> T_Demo, participationType |-> T_Poster,
       durationMinutes |-> 15, scientistId |-> MaxScientists,
       conferenceId |-> c, status |-> T_pending] : c \in 1..MaxConferences }

ParticipationPatches ==
    { [id |-> MaxParticipations, status |-> T_pending] }
    \cup { [scientistId |-> MaxScientists + 1] }
    \cup { [conferenceId |-> c] : c \in 2..MaxConferences }

BulkBodies ==
    { [conferenceId |-> c, oldStatus |-> T_pending,
       newStatus |-> T_confirmed] : c \in 1..MaxConferences }
    \cup
    { [conferenceId |-> c, oldStatus |-> T_confirmed, newStatus |-> T_pending,
       beforeDate |-> IsoText(20, FALSE)] : c \in 1..MaxConferences }

(***************************************************************************)
(* JavaScript numbers and parseInt.                                        *)
(***************************************************************************)
Num(v) == [k |-> "num", v |-> v]
NaN == [k |-> "NaN", v |-> 0]
Infinity == [k |-> "Inf", v |-> 1]
IsNum(x) == x.k = "num"

DecimalDigits == <<"0", "1", "2", "3", "4", "5", "6", "7", "8", "9">>
HexDigits == DecimalDigits \o <<"a", "b", "c", "d", "e", "f">>
WhiteSpace == {" ", "\t", "\n"}

ToLowerChar(c) ==
    CASE c = "A" -> "a" [] c = "B" -> "b" [] c = "C" -> "c" [] c = "D" -> "d"
      [] c = "E" -> "e" [] c = "F" -> "f" [] c = "I" -> "i" [] c = "K" -> "k"
      [] c = "M" -> "m" [] c = "P" -> "p" [] c = "S" -> "s" [] c = "T" -> "t"
      [] c = "U" -> "u" [] c = "X" -> "x" [] OTHER -> c
ToLower(text) == [i \in 1..Len(text) |-> ToLowerChar(text[i])]

\* The value of a digit in the radix, or -1 for any other character.
DigitValue(c, radix) ==
    LET digits == IF radix = 16 THEN HexDigits ELSE DecimalDigits
        at == { i \in 1..Len(digits) : digits[i] = ToLowerChar(c) } IN
    IF at = {} THEN -1 ELSE (CHOOSE i \in at : TRUE) - 1

RECURSIVE TrimLeft(_)
TrimLeft(text) ==
    IF text # <<>> /\ Head(text) \in WhiteSpace THEN TrimLeft(Tail(text))
    ELSE text

\* The longest prefix of digits, read in the radix: <<value, digits read>>.
RECURSIVE ReadDigits(_, _, _, _)
ReadDigits(text, radix, acc, n) ==
    IF text = <<>> \/ DigitValue(Head(text), radix) < 0 THEN <<acc, n>>
    ELSE ReadDigits(Tail(text), radix,
                    acc * radix + DigitValue(Head(text), radix), n + 1)

\* parseInt(text) with no radix argument.
parseInt(text) ==
    LET t == TrimLeft(text)
        signed == t # <<>> /\ Head(t) \in {"+", "-"}
        negative == signed /\ Head(t) = "-"
        u == IF signed THEN Tail(t) ELSE t
        hex == Len(u) >= 2 /\ u[1] = "0" /\ u[2] \in {"x", "X"}
        read == IF hex THEN ReadDigits(Tail(Tail(u)), 16, 0, 0)
                ELSE ReadDigits(u, 10, 0, 0) IN
    IF read[2] = 0 THEN NaN
    ELSE Num(IF negative THEN 0 - read[1] ELSE read[1])

\* A well-formed integer text: digits, after an optional sign.
IsIntegerText(text) ==
    LET digits == IF text # <<>> /\ Head(text) \in {"+", "-"}
                  THEN Tail(text) ELSE text IN
    /\ digits # <<>>
    /\ \A i \in 1..Len(digits) :
          \E d \in 1..Len(DecimalDigits) : digits[i] = DecimalDigits[d]

\* a - b and a * b on numbers that are finite or NaN.
JsMinus(a, b) == IF IsNum(a) /\ IsNum(b) THEN Num(a.v - b.v) ELSE NaN
JsTimes(a, b) == IF IsNum(a) /\ IsNum(b) THEN Num(a.v * b.v) ELSE NaN

\* Mutant: Math.floor in the place of Math.ceil.
CeilOfQuotient_floor(a, b) == a \div b

\* The least integer that is >= a / b, for b > 0.
CeilOfQuotient(a, b) == 0 - ((0 - a) \div b)

\* Math.ceil(total / limitNum), total a count (an integer >= 0).
MathCeilDiv(total, limitNum) ==
    IF ~IsNum(limitNum) THEN NaN
    ELSE IF limitNum.v = 0 THEN (IF total = 0 THEN NaN ELSE Infinity)
    ELSE IF limitNum.v > 0 THEN Num(CeilOfQuotient(total, limitNum.v))
    ELSE Num(0 - (total \div (0 - limitNum.v)))

(***************************************************************************)
(* Conversions the handlers apply.                                         *)
(***************************************************************************)
\* new Date(text): the instant the ISO text names.
NewDate(iso) == iso.t
\* Date.prototype.toISOString: always with the millisecond part.
toISOString(instant) == IsoText(instant, TRUE)
\* JavaScript truthiness of a text: the empty text is falsy.
Truthy(text) == text # T_empty
\* a || b on an optional text field.
OrElse(data, f, fallback) ==
    IF Has(data, f) /\ Truthy(data[f]) THEN data[f] ELSE fallback
\* a || 0 on an optional number field.
OrZero(data, f) == IF Has(data, f) /\ data[f] # 0 THEN data[f] ELSE 0

\* c.json of a conference row: the Date is serialised by toISOString.
jsonConference(row) == [row EXCEPT !.date = toISOString(row.date)]

\* Mutant: metadata is passed through whatever its type.
formatParticipation_raw(p) ==
    [id |-> p.id,
     talkTitle |-> p.talkTitle,
     participationType |-> p.participationType,
     durationMinutes |-> p.durationMinutes,
     scientistId |-> p.scientistId,
     conferenceId |-> p.conferenceId,
     status |-> p.status,
     metadata |-> p.metadata]

formatParticipation(p) ==
    [id |-> p.id,
     talkTitle |-> p.talkTitle,
     participationType |-> p.participationType,
     durationMinutes |-> p.durationMinutes,
     scientistId |-> p.scientistId,
     conferenceId |-> p.conferenceId,
     status |-> p.status,
     metadata |-> IF p.metadata.t \in {"object", "null"} THEN p.metadata
                  ELSE JNull]

\* A reply of a single-record route.
Reply(op, status, id, req, body, msg, err) ==
    [op |-> op, status |-> status, id |-> id, req |-> req, body |-> body,
     msg |-> msg, err |-> err]

(***************************************************************************)
(* Scientists routes.                                                      *)
(***************************************************************************)
\* Mutant: the handler does not test the row for null.
getScientist_unchecked(id) ==
    /\ response' = Reply("getScientist", 200, id, NoBody,
                         findUnique(scientists, id), "", "None")
    /\ issued' = <<>>
    /\ UNCHANGED <<tables, deletedScientists, deletedConferences>>

getScientist(id) ==
    LET scientist == findUnique(scientists, id) IN
    /\ response' =
         IF scientist = NoBody
         THEN Reply("getScientist", 404, id, NoBody, NoBody,
                    "Scientist not found", "None")
         ELSE Reply("getScientist", 200, id, NoBody, scientist, "", "None")
    /\ issued' = <<>>
    /\ UNCHANGED <<tables, deletedScientists, deletedConferences>>

createScientist(data) ==
    LET id == nextScientistId
        row == scientist_row(id, data) IN
    /\ nextScientistId <= MaxScientists
    /\ scientists' = Put(scientists, id, row)
    /\ nextScientistId' = id + 1
    /\ response' = Reply("createScientist", 201, id, data, row, "", "None")
    /\ issued' = <<>>
    /\ UNCHANGED <<conferences, participations, nextConferenceId,
                   nextParticipationId, deletedScientists, deletedConferences>>

updateScientist(id, data) ==
    LET err == update_error(scientists, id) IN
    /\ IF err = "None"
       THEN LET row == Merge(scientists[id], data) IN
            /\ scientists' = Put(scientists, id, row)
            /\ response' = Reply("updateScientist", 200, id, data, row, "",
                                 err)
       ELSE /\ UNCHANGED scientists
            /\ response' = Reply("updateScientist", 404, id, data, NoBody,
                                 "Scientist not found", err)
    /\ issued' = <<>>
    /\ UNCHANGED <<conferences, participations, nextScientistId,
                   nextConferenceId, nextParticipationId, deletedScientists,
                   deletedConferences>>

deleteScientist(id) ==
    LET err == delete_error(scientists, id, ReferencesScientist(id)) IN
    /\ IF err = "None"
       THEN /\ scientists' = Remove(scientists, id)
            /\ deletedScientists' = deletedScientists \cup {id}
            /\ response' = Reply("deleteScientist", 200, id, NoBody, NoBody,
                                 "Scientist deleted successfully", err)
       ELSE /\ UNCHANGED <<scientists, deletedScientists>>
            /\ response' = Reply("deleteScientist", 404, id, NoBody, NoBody,
                                 "Scientist not found", err)
    /\ issued' = <<>>
    /\ UNCHANGED <<conferences, participations, nextScientistId,
                   nextConferenceId, nextParticipationId, deletedConferences>>

(***************************************************************************)
(* Conferences routes.                                                     *)
(***************************************************************************)
\* include: { participations: { include: { scientist: true } } }
conferenceWithParticipations(row) ==
    [id |-> row.id, topic |-> row.topic, name |-> row.name,
     date |-> toISOString(row.date), country |-> row.country,
     location |-> row.location, capacity |-> row.capacity,
     participations |->
        { [participation |-> participations[p],
           scientist |-> scientists[participations[p].scientistId]] :
          p \in { q \in DOMAIN participations :
                    participations[q].conferenceId = row.id } }]

\* Mutant: the handler does not test the row for null.
getConference_unchecked(id) ==
    /\ response' = Reply("getConference", 200, id, NoBody,
                         findUnique(conferences, id), "", "None")
    /\ issued' = <<>>
    /\ UNCHANGED <<tables, deletedScientists, deletedConferences>>

getConference(id) ==
    LET conference == findUnique(conferences, id) IN
    /\ response' =
         IF conference = NoBody
         THEN Reply("getConference", 404, id, NoBody, NoBody,
                    "Conference not found", "None")
         ELSE Reply("getConference", 200, id, NoBody,
                    conferenceWithParticipations(conference), "", "None")
    /\ issued' = <<>>
    /\ UNCHANGED <<tables, deletedScientists, deletedConferences>>

\* { ...data, date: new Date(data.date), capacity: data.capacity || 0 }
createConferenceData(data) ==
    [topic |-> data.topic, name |-> data.name, date |-> NewDate(data.date),
     country |-> data.country, location |-> data.location,
     capacity |-> OrZero(data, "capacity")]

createConference(data) ==
    LET id == nextConferenceId
        row == conference_row(id, createConferenceData(data)) IN
    /\ nextConferenceId <= MaxConferences
    /\ conferences' = Put(conferences, id, row)
    /\ nextConferenceId' = id + 1
    /\ response' = Reply("createConference", 201, id, data,
                         jsonConference(row), "", "None")
    /\ issued' = <<>>
    /\ UNCHANGED <<scientists, participations, nextScientistId,
                   nextParticipationId, deletedScientists, deletedConferences>>

\* { ...data, ...(data.date && { date: new Date(data.date) }) }
conferenceUpdateData(data) ==
    [f \in DOMAIN data |-> IF f = "date" THEN NewDate(data[f]) ELSE data[f]]

updateConference(id, data) ==
    LET err == update_error(conferences, id) IN
    /\ IF err = "None"
       THEN LET row == Merge(conferences[id], conferenceUpdateData(data)) IN
            /\ conferences' = Put(conferences, id, row)
            /\ response' = Reply("updateConference", 200, id, data,
                                 jsonConference(row), "", err)
       ELSE /\ UNCHANGED conferences
            /\ response' = Reply("updateConference", 404, id, data, NoBody,
                                 "Conference not found", err)
    /\ issued' = <<>>
    /\ UNCHANGED <<scientists, participations, nextScientistId,
                   nextConferenceId, nextParticipationId, deletedScientists,
                   deletedConferences>>

deleteConference(id) ==
    LET err == delete_error(conferences, id, ReferencesConference(id)) IN
    /\ IF err = "None"
       THEN /\ conferences' = Remove(conferences, id)
            /\ deletedConferences' = deletedConferences \cup {id}
            /\ response' = Reply("deleteConference", 200, id, NoBody, NoBody,
                                 "Conference deleted successfully", err)
       ELSE /\ UNCHANGED <<conferences, deletedConferences>>
            /\ response' = Reply("deleteConference", 404, id, NoBody, NoBody,
                                 "Conference not found", err)
    /\ issued' = <<>>
    /\ UNCHANGED <<scientists, participations, nextScientistId,
                   nextConferenceId, nextParticipationId, deletedScientists>>

\* prisma.conference.groupBy({ by: ['country'], _count: { id: true },
\* _avg: { capacity: true } }): one row per country; the average is kept
\* as the sum of the capacities over the number of rows.
RECURSIVE SumCapacity(_)
SumCapacity(ids) ==
    IF ids = {} THEN 0
    ELSE LET id == CHOOSE i \in ids : \A j \in ids : i <= j IN
         conferences[id].capacity + SumCapacity(ids \ {id})

\* findMany({ where: { country } }): the conferences of a country.
conferencesOfCountry(country) ==
    { id \in DOMAIN conferences : conferences[id].country = country }

conferenceGroupBy ==
    { [country |-> country,
       count |-> Cardinality(conferencesOfCountry(country)),
       sum |-> SumCapacity(conferencesOfCountry(country))] :
      country \in { conferences[id].country : id \in DOMAIN conferences } }

\* Math.round(stat._avg.capacity || 0): the mean sum / count, halves
\* rounded up; a mean of 0 is falsy and stays 0.
MathRoundAvg(sum, count) ==
    IF sum = 0 THEN 0 ELSE (2 * sum + count) \div (2 * count)

\* include: { _count: { select: { participations: true } } }
participationsCount(conferenceId) ==
    Cardinality({ p \in DOMAIN participations :
                    participations[p].conferenceId = conferenceId })

\* Property names the object literal {} inherits from Object.prototype.
ObjectPrototypeKeys == { T_constructor }

\* The text of an inherited function followed by n characters "1".
FunctionText(n) == [k |-> "functionText", v |-> n]

\* topicCounts[conf.topic]: the own property, else the inherited one, else
\* undefined.
topicCountsGet(topicCounts, topic) ==
    IF topic \in DOMAIN topicCounts THEN topicCounts[topic]
    ELSE IF topic \in ObjectPrototypeKeys THEN [k |-> "function", v |-> 0]
    ELSE [k |-> "undefined", v |-> 0]

\* (topicCounts[conf.topic] || 0) + 1: a number is incremented, undefined
\* counts as 0, and a function or a text is truthy and "+ 1" appends "1".
topicCountsNext(topicCounts, topic) ==
    LET old == topicCountsGet(topicCounts, topic) IN
    CASE old.k = "undefined" -> Num(1)
      [] old.k = "num" -> Num(old.v + 1)
      [] old.k = "function" -> FunctionText(1)
      [] old.k = "functionText" -> FunctionText(old.v + 1)

\* conferences.forEach(...): the fold of the detail rows into topicCounts
\* and totalParticipations.
RECURSIVE foldConferences(_, _)
foldConferences(ids, acc) ==
    IF ids = {} THEN acc
    ELSE LET id == CHOOSE i \in ids : \A j \in ids : i <= j
             topic == conferences[id].topic IN
         foldConferences(ids \ {id},
            [topicCounts |-> Put(acc.topicCounts, topic,
                                 topicCountsNext(acc.topicCounts, topic)),
             totalParticipations |->
                acc.totalParticipations + participationsCount(id)])

detailedStats(stat) ==
    LET folded == foldConferences(conferencesOfCountry(stat.country),
                      [topicCounts |-> EmptyTable, totalParticipations |-> 0])
    IN [country |-> stat.country,
        totalConferences |-> stat.count,
        totalParticipations |-> folded.totalParticipations,
        avgCapacity |-> MathRoundAvg(stat.sum, stat.count),
        topicDistribution |-> folded.topicCounts]

\* GET /conferences/stats; the reply's data is kept as the set of its
\* entries, the order of the groups being the store's choice.
getConferenceStats ==
    /\ response' = Reply("getConferenceStats", 200, 0, NoBody,
                         { detailedStats(stat) : stat \in conferenceGroupBy },
                         "", "None")
    /\ issued' = <<>>
    /\ UNCHANGED <<tables, deletedScientists, deletedConferences>>

(***************************************************************************)
(* Participations routes.                                                  *)
(***************************************************************************)
getParticipation(id) ==
    LET participation == findUnique(participations, id) IN
    /\ response' =
         IF participation = NoBody
         THEN Reply("getParticipation", 404, id, NoBody, NoBody,
                    "Participation not found", "None")
         ELSE Reply("getParticipation", 200, id, NoBody,
                    formatParticipation(participation), "", "None")
    /\ issued' = <<>>
    /\ UNCHANGED <<tables, deletedScientists, deletedConferences>>

\* The data object the create handler hands to the store.
createParticipationData(data) ==
    [talkTitle |-> data.talkTitle,
     participationType |-> data.participationType,
     durationMinutes |-> data.durationMinutes,
     scientistId |-> data.scientistId,
     conferenceId |-> data.conferenceId,
     status |-> OrElse(data, "status", T_confirmed),
     metadata |-> Field(data, "metadata", Undefined)]

\* Mutant: the catch branch answers as the update and delete handlers do.
createParticipationFailed_as404(id, data, err) ==
    Reply("createParticipation", 404, id, data, NoBody,
          "Participation not found", err)

\* The catch branch of the create handler.
createParticipationFailed(id, data, err) ==
    Reply("createParticipation", 400, id, data, NoBody,
          "Failed to create participation. Check if scientist and conference exist.",
          err)

createParticipation(data) ==
    LET id == nextParticipationId
        err == participation_create_error(createParticipationData(data))
        row == participation_row(id, createParticipationData(data)) IN
    /\ nextParticipationId <= MaxParticipations
    /\ IF err = "None"
       THEN /\ participations' = Put(participations, id, row)
            /\ nextParticipationId' = id + 1
            /\ response' = Reply("createParticipation", 201, id, data,
                                 formatParticipation(row), "", err)
       ELSE \* the refused insert has drawn its id from the sequence
            /\ UNCHANGED participations
            /\ nextParticipationId' = id + 1
            /\ response' = createParticipationFailed(id, data, err)
    /\ issued' = <<>>
    /\ UNCHANGED <<scientists, conferences, nextScientistId,
                   nextConferenceId, deletedScientists, deletedConferences>>

\* Mutant: the handler has no catch, and the store's exception becomes 500.
updateParticipation_uncaught(id, data) ==
    LET err == participation_update_error(id, data) IN
    /\ IF err = "None"
       THEN LET row == Merge(participations[id], data) IN
            /\ participations' = Put(participations, id, row)
            /\ response' = Reply("updateParticipation", 200, id, data,
                                 formatParticipation(row), "", err)
       ELSE /\ UNCHANGED participations
            /\ response' = Reply("updateParticipation", 500, id, data, NoBody,
                                 "Internal Server Error", err)
    /\ issued' = <<>>
    /\ UNCHANGED <<scientists, conferences, nextScientistId,
                   nextConferenceId, nextParticipationId, deletedScientists,
                   deletedConferences>>

updateParticipation(id, data) ==
    LET err == participation_update_error(id, data) IN
    /\ IF err = "None"
       THEN LET row == Merge(participations[id], data) IN
            /\ participations' = Put(participations, id, row)
            /\ response' = Reply("updateParticipation", 200, id, data,
                                 formatParticipation(row), "", err)
       ELSE /\ UNCHANGED participations
            /\ response' = Reply("updateParticipation", 404, id, data, NoBody,
                                 "Participation not found", err)
    /\ issued' = <<>>
    /\ UNCHANGED <<scientists, conferences, nextScientistId,
                   nextConferenceId, nextParticipationId, deletedScientists,
                   deletedConferences>>

\* Mutant: the handler answers 200 whatever the store's delete did.
deleteParticipation_silent(id) ==
    LET err == delete_error(participations, id, FALSE) IN
    /\ participations' =
          IF err = "None" THEN Remove(participations, id) ELSE participations
    /\ response' = Reply("deleteParticipation", 200, id, NoBody, NoBody,
                         "Participation deleted successfully", err)
    /\ issued' = <<>>
    /\ UNCHANGED <<scientists, conferences, nextScientistId,
                   nextConferenceId, nextParticipationId, deletedScientists,
                   deletedConferences>>

deleteParticipation(id) ==
    LET err == delete_error(participations, id, FALSE) IN
    /\ IF err = "None"
       THEN /\ participations' = Remove(participations, id)
            /\ response' = Reply("deleteParticipation", 200, id, NoBody,
                                 NoBody, "Participation deleted successfully",
                                 err)
       ELSE /\ UNCHANGED participations
            /\ response' = Reply("deleteParticipation", 404, id, NoBody,
                                 NoBody, "Participation not found", err)
    /\ issued' = <<>>
    /\ UNCHANGED <<scientists, conferences, nextScientistId,
                   nextConferenceId, nextParticipationId, deletedScientists,
                   deletedConferences>>

\* Mutant: the where clause leaves the conference out.
bulkWhere_anyConference(row, body) ==
    /\ row.status = body.oldStatus
    /\ Has(body, "beforeDate") =>
          conferences[row.conferenceId].date < NewDate(body.beforeDate)

\* Mutant: lte in the place of lt.
bulkWhere_notAfter(row, body) ==
    /\ row.conferenceId = body.conferenceId
    /\ row.status = body.oldStatus
    /\ Has(body, "beforeDate") =>
          conferences[row.conferenceId].date <= NewDate(body.beforeDate)

\* The where clause of the bulk update, applied to one stored row.
bulkWhere(row, body) ==
    /\ row.conferenceId = body.conferenceId
    /\ row.status = body.oldStatus
    /\ Has(body, "beforeDate") =>
          conferences[row.conferenceId].date < NewDate(body.beforeDate)

bulkUpdateParticipations(body) ==
    LET hit == { p \in DOMAIN participations :
                   bulkWhere(participations[p], body) } IN
    /\ participations' =
         [p \in DOMAIN participations |->
            IF p \in hit
            THEN [participations[p] EXCEPT !.status = body.newStatus]
            ELSE participations[p]]
    /\ response' = [op |-> "bulkUpdateParticipations", status |-> 200,
                    id |-> 0, req |-> body, body |-> NoBody, msg |-> "",
                    err |-> "None", updated |-> Cardinality(hit)]
    /\ issued' = <<>>
    /\ UNCHANGED <<scientists, conferences, nextScientistId,
                   nextConferenceId, nextParticipationId, deletedScientists,
                   deletedConferences>>

(***************************************************************************)
(* The CRUD state machine: any request, in any order.                      *)
(***************************************************************************)
Init ==
    /\ scientists = EmptyTable
    /\ conferences = EmptyTable
    /\ participations = EmptyTable
    /\ nextScientistId = 1
    /\ nextConferenceId = 1
    /\ nextParticipationId = 1
    /\ deletedScientists = {}
    /\ deletedConferences = {}
    /\ issued = <<>>
    /\ response = NoReply
    /\ inflight = NoRequest

GetScientist ==
    /\ Idle
    /\ UNCHANGED inflight
    /\ \E id \in ScientistIds : getScientist(id)
CreateScientist ==
    /\ Idle
    /\ UNCHANGED inflight
    /\ \E data \in ScientistBodies : createScientist(data)
UpdateScientist ==
    /\ Idle
    /\ UNCHANGED inflight
    /\ \E id \in ScientistIds, data \in ScientistPatches :
        updateScientist(id,
            validJson(UpdateScientistSchema, data))
DeleteScientist ==
    /\ Idle
    /\ UNCHANGED inflight
    /\ \E id \in ScientistIds : deleteScientist(id)
GetConference ==
    /\ Idle
    /\ UNCHANGED inflight
    /\ \E id \in ConferenceIds : getConference(id)
CreateConference ==
    /\ Idle
    /\ UNCHANGED inflight
    /\ \E data \in ConferenceBodies : createConference(data)
UpdateConference ==
    /\ Idle
    /\ UNCHANGED inflight
    /\ \E id \in ConferenceIds, data \in ConferencePatches :
        updateConference(id,
            validJson(UpdateConferenceSchema, data))
DeleteConference ==
    /\ Idle
    /\ UNCHANGED inflight
    /\ \E id \in ConferenceIds : deleteConference(id)
GetConferenceStats ==
    /\ Idle
    /\ UNCHANGED inflight
    /\ getConferenceStats
GetParticipation ==
    /\ Idle
    /\ UNCHANGED inflight
    /\ \E id \in ParticipationIds : getParticipation(id)
CreateParticipation ==
    /\ Idle
    /\ UNCHANGED inflight
    /\ \E data \in ParticipationBodies : createParticipation(data)
UpdateParticipation ==
    /\ Idle
    /\ UNCHANGED inflight
    /\ \E id \in ParticipationIds, data \in ParticipationPatches :
        updateParticipation(id,
            validJson(UpdateParticipationSchema, data))
DeleteParticipation ==
    /\ Idle
    /\ UNCHANGED inflight
    /\ \E id \in ParticipationIds : deleteParticipation(id)
BulkUpdateParticipations ==
    /\ Idle
    /\ UNCHANGED inflight
    /\ \E body \in BulkBodies : bulkUpdateParticipations(body)

Next ==
    \/ Sent
    \/ GetScientist
    \/ CreateScientist
    \/ UpdateScientist
    \/ DeleteScientist
    \/ GetConference
    \/ CreateConference
    \/ UpdateConference
    \/ DeleteConference
    \/ GetConferenceStats
    \/ GetParticipation
    \/ CreateParticipation
    \/ UpdateParticipation
    \/ DeleteParticipation
    \/ BulkUpdateParticipations

Spec == Init /\ [][Next]_vars

(***************************************************************************)
(* The store's read queries: findMany and count.                           *)
(***************************************************************************)
ScientistColumns ==
    {"id", "fullName", "country", "degree", "specialization", "organization",
     "email", "orcid", "hIndex"}
ConferenceColumns ==
    {"id", "topic", "name", "date", "country", "location", "capacity"}
ParticipationColumns ==
    {"id", "talkTitle", "participationType", "durationMinutes", "scientistId",
     "conferenceId", "status", "metadata"}

\* { contains: sub, mode: 'insensitive' }
Contains(text, sub) ==
    \E i \in 1..(Len(text) - Len(sub) + 1) :
        ToLower(SubSeq(text, i, i + Len(sub) - 1)) = ToLower(sub)

\* One condition of a where clause, on one row.
Condition(row, c) ==
    IF c.op = "contains" THEN Contains(row[c.col], c.val)
    ELSE IsNum(c.val) /\ row[c.col] = c.val.v

\* A where clause: every condition of "all", and one of "any" if there are any.
NoWhere == [all |-> {}, any |-> {}]
Matches(row, where) ==
    /\ \A c \in where.all : Condition(row, c)
    /\ where.any = {} \/ \E c \in where.any : Condition(row, c)

Matching(table, where) == { i \in DOMAIN table : Matches(table[i], where) }

\* The store rejects a query whose arguments are not of the column's type.
WhereValid(where) ==
    \A c \in where.all \cup where.any : c.op = "equals" => IsNum(c.val)

FindManyValid(columns, q) ==
    /\ WhereValid(q.where)
    /\ IsNum(q.skip) /\ q.skip.v >= 0
    /\ IsNum(q.take)
    /\ q.orderBy \in columns

\* The orders of the ids that the sort clause allows: rows with equal keys
\* come in any order.
Orders(table, ids, orderBy, sortOrder) ==
    LET n == Cardinality(ids) IN
    { o \in [1..n -> ids] :
        /\ \A i, j \in 1..n : i # j => o[i] # o[j]
        /\ \A i, j \in 1..n : i < j =>
              IF sortOrder = "asc"
              THEN table[o[i]][orderBy] <= table[o[j]][orderBy]
              ELSE table[o[i]][orderBy] >= table[o[j]][orderBy] }

Min(a, b) == IF a < b THEN a ELSE b

Reverse(seq) == [i \in 1..Len(seq) |-> seq[Len(seq) + 1 - i]]

\* OFFSET skip LIMIT take over an order of ids; a negative take counts from
\* the end of the order.
Window(order, skip, take) ==
    IF take >= 0
    THEN SubSeq(order, skip + 1, Min(skip + take, Len(order)))
    ELSE Reverse(SubSeq(Reverse(order), skip + 1,
                        Min(skip - take, Len(order))))

\* The results findMany may return for a valid query: sequences of rows.
FindMany(table, q) ==
    { [i \in 1..Len(w) |-> table[w[i]]] :
        w \in { Window(o, q.skip.v, q.take.v) :
                  o \in Orders(table, Matching(table, q.where), q.orderBy,
                               q.sortOrder) } }

\* Mutant: the count ignores its where clause.
Count_all(table, where) == Cardinality(DOMAIN table)

Count(table, where) == Cardinality(Matching(table, where))

FindManyQuery(model, where, skip, take, orderBy, sortOrder) ==
    [query |-> "findMany", model |-> model, where |-> where, skip |-> skip,
     take |-> take, orderBy |-> orderBy, sortOrder |-> sortOrder]
CountQuery(model, where) ==
    [query |-> "count", model |-> model, where |-> where]

(***************************************************************************)
(* List routes: pagination, filters, sorting.                              *)
(***************************************************************************)
DefaultPage == <<"1">>
DefaultLimit == <<"1", "0">>

PageNum(query) == parseInt(Field(query, "page", DefaultPage))
LimitNum(query) == parseInt(Field(query, "limit", DefaultLimit))
\* Mutant: the offset of a one-based page taken as zero-based.
Skip_zeroBased(pageNum, limitNum) == JsTimes(pageNum, limitNum)

\* const skip = (pageNum - 1) * limitNum
Skip(pageNum, limitNum) == JsTimes(JsMinus(pageNum, Num(1)), limitNum)

Pagination(pageNum, limitNum, total) ==
    [page |-> pageNum, limit |-> limitNum, total |-> total,
     pages |-> MathCeilDiv(total, limitNum)]

\* if (query[f]) where[col] = { contains: query[f], mode: 'insensitive' }
ContainsFilter(query, f) ==
    IF Has(query, f) /\ Truthy(query[f])
    THEN { [col |-> f, op |-> "contains", val |-> query[f]] }
    ELSE {}
\* if (query[f]) where[col] = parseInt(query[f])
EqualsFilter(query, f) ==
    IF Has(query, f) /\ Truthy(query[f])
    THEN { [col |-> f, op |-> "equals", val |-> parseInt(query[f])] }
    ELSE {}

scientistsWhere(query) ==
    IF Has(query, "search") /\ Truthy(query.search)
    THEN [all |-> {},
          any |-> { [col |-> c, op |-> "contains", val |-> query.search] :
                      c \in {"fullName", "specialization", "organization"} }]
    ELSE NoWhere

conferencesWhere(query) ==
    [all |-> ContainsFilter(query, "country") \cup ContainsFilter(query, "topic"),
     any |-> {}]

participationsWhere(query) ==
    [all |-> ContainsFilter(query, "participationType")
             \cup ContainsFilter(query, "status")
             \cup EqualsFilter(query, "scientistId")
             \cup EqualsFilter(query, "conferenceId"),
     any |-> {}]

withDetailsWhere(query) ==
    [all |-> ContainsFilter(query, "participationType"), any |-> {}]

\* Mutant: the related rows are included whole, without a select.
withDetails_wholeRows(p) ==
    [id |-> p.id,
     talkTitle |-> p.talkTitle,
     participationType |-> p.participationType,
     durationMinutes |-> p.durationMinutes,
     status |-> p.status,
     metadata |-> IF p.metadata.t \in {"object", "null"} THEN p.metadata
                  ELSE JNull,
     scientist |-> scientists[p.scientistId],
     conference |->
        LET co == conferences[p.conferenceId] IN
        [id |-> co.id, name |-> co.name, topic |-> co.topic,
         date |-> toISOString(co.date), location |-> co.location]]

\* The row of GET /participations/with-details.
withDetails(p) ==
    [id |-> p.id,
     talkTitle |-> p.talkTitle,
     participationType |-> p.participationType,
     durationMinutes |-> p.durationMinutes,
     status |-> p.status,
     metadata |-> IF p.metadata.t \in {"object", "null"} THEN p.metadata
                  ELSE JNull,
     scientist |->
        LET sc == scientists[p.scientistId] IN
        [id |-> sc.id, fullName |-> sc.fullName, country |-> sc.country,
         specialization |-> sc.specialization, hIndex |-> sc.hIndex],
     conference |->
        LET co == conferences[p.conferenceId] IN
        [id |-> co.id, name |-> co.name, topic |-> co.topic,
         date |-> toISOString(co.date), location |-> co.location]]

ListOps ==
    {"getScientists", "getConferences", "getParticipations",
     "getParticipationsWithJoin"}

TableOf(op) ==
    CASE op = "getScientists" -> scientists
      [] op = "getConferences" -> conferences
      [] OTHER -> participations
ColumnsOf(op) ==
    CASE op = "getScientists" -> ScientistColumns
      [] op = "getConferences" -> ConferenceColumns
      [] OTHER -> ParticipationColumns
WhereOf(op, query) ==
    CASE op = "getScientists" -> scientistsWhere(query)
      [] op = "getConferences" -> conferencesWhere(query)
      [] op = "getParticipations" -> participationsWhere(query)
      [] OTHER -> withDetailsWhere(query)
\* The sort clause: the request's sortBy and sortOrder with the route's
\* defaults, or the fixed { id: 'desc' } of with-details.
SortByOf(op, query) ==
    CASE op = "getConferences" -> Field(query, "sortBy", "date")
      [] op = "getParticipationsWithJoin" -> "id"
      [] OTHER -> Field(query, "sortBy", "id")
\* Mutant: the sort clause ignores the request's sortOrder.
SortOrderOf_ascending(op, query) == "asc"

SortOrderOf(op, query) ==
    CASE op = "getConferences" -> Field(query, "sortOrder", "desc")
      [] op = "getParticipationsWithJoin" -> "desc"
      [] OTHER -> Field(query, "sortOrder", "asc")
Shape(op, row) ==
    CASE op = "getScientists" -> row
      [] op = "getConferences" -> jsonConference(row)
      [] op = "getParticipations" -> formatParticipation(row)
      [] OTHER -> withDetails(row)

\* The query schema of the route: sortOrder is an enum, the rest any text.
QueryValid(op, query) ==
    op # "getParticipationsWithJoin" /\ Has(query, "sortOrder") =>
        query.sortOrder \in {"asc", "desc"}

ListReply(op, status, query, data, pagination) ==
    [op |-> op, status |-> status, query |-> query, data |-> data,
     pagination |-> pagination]

\* The findMany query of a list handler.
ListFindMany(op, query) ==
    FindManyQuery(op, WhereOf(op, query),
                  Skip(PageNum(query), LimitNum(query)), LimitNum(query),
                  SortByOf(op, query), SortOrderOf(op, query))
\* Mutant: the count query leaves the filters out.
ListCount_unfiltered(op, query) == CountQuery(op, NoWhere)

\* The count query of a list handler.
ListCount(op, query) == CountQuery(op, WhereOf(op, query))

\* A list handler: the query is validated by the schema, the page query and
\* the count query are issued together, and a store exception is not caught.
ListRequest(op, query) ==
    LET find == ListFindMany(op, query)
        count == ListCount(op, query) IN
    /\ IF ~QueryValid(op, query)
       THEN /\ issued' = <<>>
            /\ response' = ListReply(op, 400, query, <<>>, NoBody)
       ELSE /\ issued' = <<find, count>>
            /\ IF FindManyValid(ColumnsOf(op), find)
               THEN \E rows \in FindMany(TableOf(op), find) :
                      response' =
                        ListReply(op, 200, query,
                          [i \in 1..Len(rows) |-> Shape(op, rows[i])],
                          Pagination(PageNum(query), LimitNum(query),
                                     Count(TableOf(op), count.where)))
               ELSE response' = ListReply(op, 500, query, <<>>, NoBody)
    /\ UNCHANGED <<tables, deletedScientists, deletedConferences>>

(***************************************************************************)
(* List requests the clients send.                                         *)
(***************************************************************************)
NoFields == [f \in {} |-> 0]
Only(f, v) == [g \in {f} |-> v]
\* The fields of both records, those of b over those of a.
Join(a, b) ==
    [f \in DOMAIN a \cup DOMAIN b |-> IF f \in DOMAIN b THEN b[f] ELSE a[f]]
Optional(f, values) == {NoFields} \cup { Only(f, v) : v \in values }

PageTexts == { <<"2">>, <<"3">>, <<"0">>, <<"-", "1">>, <<"x">>, <<"2", "x">> }
LimitTexts == { <<"1">>, <<"2">>, <<"0">>, <<"x">> }

Pagings ==
    { Join(p, l) : p \in Optional("page", PageTexts),
                   l \in Optional("limit", LimitTexts) }

Sortings(op) ==
    CASE op = "getScientists" ->
           { NoFields, [sortBy |-> "hIndex", sortOrder |-> "desc"],
             [sortBy |-> "bogus"], [sortOrder |-> "up"] }
      [] op = "getConferences" ->
           { NoFields, [sortBy |-> "capacity", sortOrder |-> "asc"],
             [sortBy |-> "id"], [sortBy |-> "bogus"], [sortOrder |-> "up"] }
      [] op = "getParticipations" ->
           { NoFields, [sortBy |-> "durationMinutes", sortOrder |-> "desc"],
             [sortBy |-> "password"], [sortOrder |-> "up"] }
      [] OTHER -> { NoFields }

Filters(op) ==
    CASE op = "getScientists" ->
           { NoFields, [search |-> <<"a">>], [search |-> <<"z", "z">>] }
      [] op = "getConferences" ->
           { NoFields, [country |-> <<"u">>], [country |-> <<"z", "z">>],
             [country |-> T_US, topic |-> <<"a", "i">>] }
      [] op = "getParticipations" ->
           { NoFields, [participationType |-> <<"k", "e">>],
             [status |-> <<"P", "E", "N">>], [scientistId |-> <<"1">>],
             [conferenceId |-> <<"2">>, status |-> <<"z", "z">>],
             [scientistId |-> <<"x">>], [scientistId |-> <<"1", "x">>] }
      [] OTHER ->
           { NoFields, [participationType |-> <<"p", "o">>],
             [participationType |-> <<"z", "z">>] }

Queries(op) ==
    { Join(Join(p, s), f) :
        p \in Pagings, s \in Sortings(op), f \in Filters(op) }

(***************************************************************************)
(* Seeded stores: what the seed script's POST requests leave in the store. *)
(***************************************************************************)
SeedScientistBody(i) ==
    IF i % 2 = 1
    THEN [fullName |-> T_Ann, country |-> T_US, degree |-> T_PhD,
          specialization |-> T_AI, organization |-> T_MIT]
    ELSE [fullName |-> T_Bob, country |-> T_DE, degree |-> T_MSc,
          specialization |-> T_Bio, organization |-> T_ETH,
          email |-> T_Mail, orcid |-> T_Orcid, hIndex |-> 7]

SeedConferenceBody(i) ==
    IF i % 2 = 1
    THEN [topic |-> T_AI, name |-> T_ConfA, date |-> IsoText(20, FALSE),
          country |-> T_US, location |-> T_Boston]
    ELSE [topic |-> T_Bio, name |-> T_ConfB, date |-> IsoText(10, TRUE),
          country |-> T_DE, location |-> T_Berlin, capacity |-> 5]

\* The j-th participation of a seed over n scientists and n conferences.
SeedParticipationBody(j, n) ==
    IF j % 2 = 1
    THEN [talkTitle |-> T_Talk, participationType |-> T_Keynote,
          durationMinutes |-> 30, scientistId |-> 1 + (j % n),
          conferenceId |-> 1 + ((j + 1) % n), metadata |-> M_Rating]
    ELSE [talkTitle |-> T_Demo, participationType |-> T_Poster,
          durationMinutes |-> 15, scientistId |-> 1 + (j % n),
          conferenceId |-> 1 + ((j + 1) % n), status |-> T_pending]

SeedScientists(n) == [i \in 1..n |-> scientist_row(i, SeedScientistBody(i))]
SeedConferences(n) ==
    [i \in 1..n |->
        conference_row(i, createConferenceData(SeedConferenceBody(i)))]
SeedParticipations(m, n) ==
    [j \in 1..m |->
        participation_row(j,
            createParticipationData(SeedParticipationBody(j, n)))]

(***************************************************************************)
(* GET routes of the participations module below the mount point: the      *)
(* router runs the handlers whose path matches in order of registration,   *)
(* and the first one that answers ends the request.                        *)
(***************************************************************************)
T_search == <<"s", "e", "a", "r", "c", "h">>
T_withDetails == <<"w", "i", "t", "h", "-", "d", "e", "t", "a", "i", "l", "s">>

\* The GET routes with one path segment, in the order of registration.
ParticipationGetRoutes == <<"/with-details", "/{id}", "/search">>

\* '/{id}' matches any segment, a static path matches its own text.
RouteMatches(route, segment) ==
    CASE route = "/{id}" -> segment # <<>>
      [] route = "/with-details" -> segment = T_withDetails
      [] route = "/search" -> segment = T_search
      [] OTHER -> FALSE

\* The first registered route that matches the segment.
FirstMatch(segment) ==
    LET at == { i \in 1..Len(ParticipationGetRoutes) :
                  RouteMatches(ParticipationGetRoutes[i], segment) }
        first == CHOOSE i \in at : \A j \in at : i <= j IN
    ParticipationGetRoutes[first]

\* z.coerce.number() on a path segment: Number(text), for a text that is
\* either a run of decimal digits or holds a character that is no digit.
CoerceNumber(text) ==
    IF IsIntegerText(text) /\ Head(text) \notin {"+", "-"}
    THEN parseInt(text) ELSE NaN

\* The reply of a route whose request validation failed.
ValidationFailed(op, segment, query) ==
    [op |-> op, status |-> 400, path |-> segment, query |-> query,
     data |-> <<>>, pagination |-> NoBody]

\* One row of the raw search query: p.*, scientistName, conferenceName.
searchRow(p) ==
    [id |-> p.id, talkTitle |-> p.talkTitle,
     participationType |-> p.participationType,
     durationMinutes |-> p.durationMinutes, scientistId |-> p.scientistId,
     conferenceId |-> p.conferenceId, status |-> p.status,
     metadata |-> p.metadata,
     scientistName |-> scientists[p.scientistId].fullName,
     conferenceName |-> conferences[p.conferenceId].name]

\* WHERE p.metadata::text ~* q, for a q without regex operators: a
\* case-insensitive substring of the document's text; NULL matches nothing.
searchMatches(p, q) == p.metadata.t = "object" /\ Contains(p.metadata.v, q)

\* The metadata search handler.
searchParticipations(segment, query) ==
    LET pageNum == PageNum(query)
        limitNum == LimitNum(query)
        skip == Skip(pageNum, limitNum)
        hits == { p \in DOMAIN participations :
                    searchMatches(participations[p], query.q) }
        valid == IsNum(skip) /\ skip.v >= 0 /\ IsNum(limitNum)
                    /\ limitNum.v >= 0 IN
    /\ issued' = <<[query |-> "queryRaw", q |-> query.q, limit |-> limitNum,
                    offset |-> skip]>>
    /\ IF valid
       THEN \E order \in Orders(participations, hits, "id", "asc") :
              LET w == Window(order, skip.v, limitNum.v) IN
              response' =
                [op |-> "searchParticipations", status |-> 200,
                 path |-> segment, query |-> query,
                 data |-> [i \in 1..Len(w) |-> searchRow(participations[w[i]])],
                 pagination |-> [page |-> pageNum, limit |-> limitNum]]
       ELSE response' =
                [op |-> "searchParticipations", status |-> 500,
                 path |-> segment, query |-> query, data |-> <<>>,
                 pagination |-> NoBody]
    /\ UNCHANGED <<tables, deletedScientists, deletedConferences>>

\* GET /participations/<segment>?<query>, as the router dispatches it.
getParticipationsAt(segment, query) ==
    LET route == FirstMatch(segment)
        id == CoerceNumber(segment) IN
    CASE route = "/with-details" ->
           ListRequest("getParticipationsWithJoin", query)
      [] route = "/{id}" ->
           IF IsNum(id) /\ id.v >= 1
           THEN getParticipation(id.v)
           ELSE /\ response' = ValidationFailed("getParticipation", segment,
                                                query)
                /\ issued' = <<>>
                /\ UNCHANGED <<tables, deletedScientists, deletedConferences>>
      [] OTHER ->
           IF Has(query, "q") /\ query.q # <<>>
           THEN searchParticipations(segment, query)
           ELSE /\ response' = ValidationFailed("searchParticipations",
                                                segment, query)
                /\ issued' = <<>>
                /\ UNCHANGED <<tables, deletedScientists, deletedConferences>>

PathSegments == { T_search, T_withDetails, <<"1">>, <<"0">> }
SearchQueries ==
    { [q |-> <<"r">>],
      [q |-> <<"a", "i">>, page |-> <<"1">>, limit |-> <<"2">>] }

(***************************************************************************)
(* The list specification: list requests over a seeded store.              *)
(***************************************************************************)
InitList ==
    \E n \in 0..MaxSeed, m \in 0..MaxSeed :
        /\ m <= n
        /\ scientists = SeedScientists(n)
        /\ conferences = SeedConferences(n)
        /\ participations = SeedParticipations(m, n)
        /\ nextScientistId = n + 1
        /\ nextConferenceId = n + 1
        /\ nextParticipationId = m + 1
        /\ deletedScientists = {}
        /\ deletedConferences = {}
        /\ issued = <<>>
        /\ response = NoReply
        /\ inflight = NoRequest

GetScientists ==
    /\ Idle
    /\ UNCHANGED inflight
    /\ \E query \in Queries("getScientists") : ListRequest("getScientists", query)
GetConferences ==
    /\ Idle
    /\ UNCHANGED inflight
    /\ \E query \in Queries("getConferences") :
        ListRequest("getConferences", query)
GetParticipations ==
    /\ Idle
    /\ UNCHANGED inflight
    /\ \E query \in Queries("getParticipations") :
        ListRequest("getParticipations", query)
GetParticipationsWithJoin ==
    /\ Idle
    /\ UNCHANGED inflight
    /\ \E query \in Queries("getParticipationsWithJoin") :
        ListRequest("getParticipationsWithJoin", query)

GetParticipationsPath ==
    /\ Idle
    /\ UNCHANGED inflight
    /\ \E segment \in PathSegments, query \in SearchQueries :
        getParticipationsAt(segment, query)

NextList ==
    \/ Sent
    \/ GetParticipationsPath
    \/ GetScientists
    \/ GetConferences
    \/ GetParticipations
    \/ GetParticipationsWithJoin

SpecList == InitList /\ [][NextList]_vars

(***************************************************************************)
(* Requests in progress.  A list handler hands its page query and its      *)
(* count query to the store together (Promise.all) and the statistics      *)
(* handler issues one detail query per group after the group-by query; no  *)
(* transaction spans them, so the store runs each query on its own, in any *)
(* order, and the writes of other requests may come in between.            *)
(***************************************************************************)
ConcurrentQueries ==
    { NoFields, [limit |-> <<"1">>], [page |-> <<"2">>, limit |-> <<"1">>],
      [country |-> <<"u">>] }

\* The request after a write of another request: written records that the
\* store changed after the first of the two queries had run.
Disturbed(request) ==
    IF request.op \in ListOps /\ request.first # "none"
    THEN [request EXCEPT !.written = TRUE] ELSE request

CreateConferenceMeanwhile ==
    /\ Idle
    /\ \E data \in ConferenceBodies : createConference(data)
    /\ inflight' =
          IF conferences' # conferences THEN Disturbed(inflight) ELSE inflight
UpdateConferenceMeanwhile ==
    /\ Idle
    /\ \E id \in ConferenceIds, data \in ConferencePatches :
        updateConference(id, validJson(UpdateConferenceSchema, data))
    /\ inflight' =
          IF conferences' # conferences THEN Disturbed(inflight) ELSE inflight
DeleteConferenceMeanwhile ==
    /\ Idle
    /\ \E id \in ConferenceIds : deleteConference(id)
    /\ inflight' =
          IF conferences' # conferences THEN Disturbed(inflight) ELSE inflight

\* GET /conferences: the query is parsed and both queries are handed to the
\* store.
BeginList ==
    /\ inflight = NoRequest
    /\ \E query \in ConcurrentQueries :
        /\ QueryValid("getConferences", query)
        /\ FindManyValid(ConferenceColumns,
                         ListFindMany("getConferences", query))
        /\ inflight' = [op |-> "getConferences", query |-> query,
                        pending |-> {"findMany", "count"}, data |-> <<>>,
                        total |-> 0, first |-> "none", written |-> FALSE]
    /\ UNCHANGED <<tables, deletedScientists, deletedConferences, issued,
                   response>>

\* The store runs the page query of the request in progress.
ExecFindMany ==
    /\ inflight.op \in ListOps
    /\ "findMany" \in inflight.pending
    /\ \E rows \in FindMany(TableOf(inflight.op),
                            ListFindMany(inflight.op, inflight.query)) :
        inflight' =
            [inflight EXCEPT
                !.pending = @ \ {"findMany"},
                !.data = [i \in 1..Len(rows) |-> Shape(inflight.op, rows[i])],
                !.first = IF @ = "none" THEN "findMany" ELSE @]
    /\ UNCHANGED <<tables, deletedScientists, deletedConferences, issued,
                   response>>

\* Mutant: the total is taken from the page when the page is already there.
ExecCount_ofPage ==
    /\ inflight.op \in ListOps
    /\ "count" \in inflight.pending
    /\ inflight' =
          [inflight EXCEPT
              !.pending = @ \ {"count"},
              !.total = IF "findMany" \in inflight.pending
                        THEN Count(TableOf(inflight.op),
                                   ListCount(inflight.op, inflight.query).where)
                        ELSE Len(inflight.data),
              !.first = IF @ = "none" THEN "count" ELSE @]
    /\ UNCHANGED <<tables, deletedScientists, deletedConferences, issued,
                   response>>

\* The store runs the count query of the request in progress.
ExecCount ==
    /\ inflight.op \in ListOps
    /\ "count" \in inflight.pending
    /\ inflight' =
          [inflight EXCEPT
              !.pending = @ \ {"count"},
              !.total = Count(TableOf(inflight.op),
                              ListCount(inflight.op, inflight.query).where),
              !.first = IF @ = "none" THEN "count" ELSE @]
    /\ UNCHANGED <<tables, deletedScientists, deletedConferences, issued,
                   response>>

\* Both results are in: c.json({ data, pagination }).
ReplyList ==
    /\ Idle
    /\ inflight.op \in ListOps
    /\ inflight.pending = {}
    /\ response' =
          ListReply(inflight.op, 200, inflight.query, inflight.data,
                    Pagination(PageNum(inflight.query),
                               LimitNum(inflight.query), inflight.total))
    /\ issued' = <<ListFindMany(inflight.op, inflight.query),
                   ListCount(inflight.op, inflight.query)>>
    /\ inflight' = NoRequest
    /\ UNCHANGED <<tables, deletedScientists, deletedConferences>>

\* GET /conferences/stats: the group-by query has run and one detail query
\* per group is handed to the store.
BeginStats ==
    /\ inflight = NoRequest
    /\ inflight' = [op |-> "getConferenceStats", pending |-> conferenceGroupBy,
                    detailedStats |-> {}]
    /\ UNCHANGED <<tables, deletedScientists, deletedConferences, issued,
                   response>>

\* The store runs the detail query of one group, and the handler folds its
\* rows.
ExecDetail ==
    /\ inflight.op = "getConferenceStats"
    /\ \E stat \in inflight.pending :
        inflight' = [inflight EXCEPT
                        !.pending = @ \ {stat},
                        !.detailedStats = @ \cup {detailedStats(stat)}]
    /\ UNCHANGED <<tables, deletedScientists, deletedConferences, issued,
                   response>>

\* Every detail is in: c.json({ data: detailedStats }).
ReplyStats ==
    /\ Idle
    /\ inflight.op = "getConferenceStats"
    /\ inflight.pending = {}
    /\ response' = Reply("getConferenceStats", 200, 0, NoBody,
                         inflight.detailedStats, "", "None")
    /\ issued' = <<>>
    /\ inflight' = NoRequest
    /\ UNCHANGED <<tables, deletedScientists, deletedConferences>>

NextConcurrent ==
    \/ Sent
    \/ CreateConferenceMeanwhile
    \/ UpdateConferenceMeanwhile
    \/ DeleteConferenceMeanwhile
    \/ BeginList
    \/ ExecFindMany
    \/ ExecCount
    \/ ReplyList
    \/ BeginStats
    \/ ExecDetail
    \/ ReplyStats

SpecConcurrent == Init /\ [][NextConcurrent]_vars

(***************************************************************************)
(* Properties of the single-record routes (specification Spec).            *)
(***************************************************************************)

\* C1: after any sequence of create, update, bulk-update and delete
\* requests, every stored participation's scientistId names a stored
\* scientist and its conferenceId names a stored conference.
C1_ForeignKeysReferToStoredRows ==
    \A p \in DOMAIN participations :
        /\ participations[p].scientistId \in DOMAIN scientists
        /\ participations[p].conferenceId \in DOMAIN conferences

\* C1 witness: a participation is stored and a PUT has just moved it to
\* another conference.
C1_Witness ==
    /\ response.op = "updateParticipation"
    /\ response.status = 200
    /\ Has(response.req, "conferenceId")
    /\ response.id \in DOMAIN participations
    /\ participations[response.id].conferenceId = response.req.conferenceId

\* C2: POST /participations whose scientistId or conferenceId matches no
\* stored row is answered 400 after the store's constraint violation, and
\* the stored participations are the same after the request as before it.
C2_CreateWithMissingReferenceFails ==
    [][(/\ response'.op = "createParticipation"
        /\ \/ response'.req.scientistId \notin DOMAIN scientists
           \/ response'.req.conferenceId \notin DOMAIN conferences)
       => (/\ response'.status = 400
           /\ response'.err = "ConstraintViolation"
           /\ participations' = participations)]_vars

\* C2 witness: a create naming a conference that is not stored has been
\* refused while a participation is stored.
C2_Witness ==
    /\ response.op = "createParticipation"
    /\ response.status = 400
    /\ response.req.scientistId \in DOMAIN scientists
    /\ response.req.conferenceId \notin DOMAIN conferences
    /\ DOMAIN participations # {}

\* C3: DELETE of a scientist or conference that a stored participation
\* references fails in the store with a constraint violation, is not
\* answered 200, and leaves that row and all participations stored.
C3_DeleteOfReferencedRowFails ==
    [][(\/ /\ response'.op = "deleteScientist"
           /\ response'.id \in DOMAIN scientists
           /\ ReferencesScientist(response'.id)
        \/ /\ response'.op = "deleteConference"
           /\ response'.id \in DOMAIN conferences
           /\ ReferencesConference(response'.id))
       => (/\ response'.err = "ConstraintViolation"
           /\ response'.status = 404
           /\ scientists' = scientists
           /\ conferences' = conferences
           /\ participations' = participations)]_vars

\* C3 witness: the delete of a referenced conference has been refused.
C3_Witness ==
    /\ response.op = "deleteConference"
    /\ response.err = "ConstraintViolation"
    /\ response.id \in DOMAIN conferences
    /\ ReferencesConference(response.id)

\* The step of a DELETE of a stored scientist or conference that no
\* participation references: answered 200 with a 'deleted successfully'
\* message, the row removed and its id recorded; the record only grows.
C4_DeleteSucceeds ==
    /\ (\/ /\ response'.op = "deleteScientist"
           /\ response'.id \in DOMAIN scientists
           /\ ~ReferencesScientist(response'.id)
        \/ /\ response'.op = "deleteConference"
           /\ response'.id \in DOMAIN conferences
           /\ ~ReferencesConference(response'.id))
       => (/\ response'.status = 200
           /\ response'.msg \in {"Scientist deleted successfully",
                                 "Conference deleted successfully"}
           /\ response'.op = "deleteScientist" =>
                 /\ response'.id \notin DOMAIN scientists'
                 /\ response'.id \in deletedScientists'
           /\ response'.op = "deleteConference" =>
                 /\ response'.id \notin DOMAIN conferences'
                 /\ response'.id \in deletedConferences')
    /\ deletedScientists \subseteq deletedScientists'
    /\ deletedConferences \subseteq deletedConferences'

\* An id whose DELETE succeeded is not stored, and a GET of it is answered 404.
C4_DeletedStaysNotFound ==
    /\ deletedScientists \cap DOMAIN scientists = {}
    /\ deletedConferences \cap DOMAIN conferences = {}
    /\ (response.op = "getScientist" /\ response.id \in deletedScientists)
          => response.status = 404
    /\ (response.op = "getConference" /\ response.id \in deletedConferences)
          => response.status = 404

\* C4: every DELETE of a stored, unreferenced scientist or conference is
\* answered 200 'deleted successfully' and removes the row, and at every
\* later moment the id is not stored and a GET of it is answered 404.
C4_DeletedRowIsNotFoundFromThenOn ==
    [][C4_DeleteSucceeds]_vars /\ []C4_DeletedStaysNotFound

\* C4 witness: a GET of a deleted conference has been answered 404 while
\* another conference is stored.
C4_Witness ==
    /\ response.op = "getConference"
    /\ response.id \in deletedConferences
    /\ response.status = 404
    /\ DOMAIN conferences # {}

(***************************************************************************)
(* Properties of the list routes (specification SpecList).                 *)
(***************************************************************************)
IsListReply == response.op \in ListOps
\* The request passed the route's query schema and reached the handler.
ReachedHandler == IsListReply /\ response.status # 400
AtLeastOne(x) == IsNum(x) /\ x.v >= 1

\* C5: for every list request with page >= 1 and limit >= 1 that reaches
\* its handler, the store is queried with skip = (page - 1) * limit and
\* take = limit, and the data returned holds at most limit records.
C5_SkipAndTakeOfListQueries ==
    LET page == PageNum(response.query)
        limit == LimitNum(response.query) IN
    (ReachedHandler /\ AtLeastOne(page) /\ AtLeastOne(limit)) =>
        /\ Len(issued) = 2
        /\ issued[1].query = "findMany"
        /\ issued[1].skip = Num((page.v - 1) * limit.v)
        /\ issued[1].take = Num(limit.v)
        /\ Len(response.data) <= limit.v

\* C5 witness: the second page of one record each has been returned.
C5_Witness ==
    /\ IsListReply
    /\ response.status = 200
    /\ response.pagination.page = Num(2)
    /\ response.pagination.limit = Num(1)
    /\ Len(response.data) = 1
    /\ issued[1].skip = Num(1)

\* C6: every list response that reports total reports pages equal to the
\* ceiling of total / limit, for every total >= 0 and limit >= 1.
C6_PagesIsCeilingOfTotalByLimit ==
    (IsListReply /\ response.status = 200
        /\ AtLeastOne(response.pagination.limit)) =>
        LET total == response.pagination.total
            limit == response.pagination.limit.v
            pages == response.pagination.pages IN
        /\ total >= 0
        /\ IsNum(pages)
        /\ pages.v * limit >= total
        /\ (pages.v - 1) * limit < total

\* C6 witness: three records at two per page make two pages.
C6_Witness ==
    /\ IsListReply
    /\ response.status = 200
    /\ response.pagination.total = 3
    /\ response.pagination.limit = Num(2)
    /\ response.pagination.pages = Num(2)

\* The sort field names a column and the numeric filters are integers.
WellFormedListRequest ==
    /\ SortByOf(response.op, response.query) \in ColumnsOf(response.op)
    /\ \A f \in {"scientistId", "conferenceId"} :
          Has(response.query, f) => IsNum(parseInt(response.query[f]))

\* No stored row satisfies the filters of the request.
NoRowMatches ==
    Matching(TableOf(response.op), WhereOf(response.op, response.query)) = {}

C8_NonPositivePageIsRejected ==
    (IsListReply /\ IsNum(PageNum(response.query))
        /\ PageNum(response.query).v <= 0) =>
        /\ response.status = 400
        /\ issued = <<>>

\* C9: a list request whose page or limit is not a well-formed integer text
\* is answered with a 400 validation error and issues no store query.
C9_MalformedPagingIsRejected ==
    (/\ IsListReply
     /\ \/ ~IsIntegerText(Field(response.query, "page", DefaultPage))
        \/ ~IsIntegerText(Field(response.query, "limit", DefaultLimit))) =>
        /\ response.status = 400
        /\ issued = <<>>

\* C10: a list request whose sortBy is not a sortable field of the entity is
\* rejected with a validation error, and the value never reaches the sort
\* clause of a store query.
C10_UnknownSortByIsRejected ==
    (/\ IsListReply
     /\ response.op # "getParticipationsWithJoin"
     /\ Has(response.query, "sortBy")
     /\ response.query.sortBy \notin ColumnsOf(response.op)) =>
        /\ response.status = 400
        /\ \A i \in 1..Len(issued) :
              issued[i].query = "findMany" =>
                  issued[i].orderBy # response.query.sortBy

(***************************************************************************)
(* Round trip, reads and failed writes of the single-record routes         *)
(* (specification Spec).                                                   *)
(***************************************************************************)
CreateOps == {"createScientist", "createConference", "createParticipation"}

\* The body GET /{id} returns for the id of the record the last reply names.
FetchOfReplied ==
    CASE response.op \in {"createScientist", "getScientist"} ->
           findUnique(scientists, response.id)
      [] response.op \in {"createConference", "getConference"} ->
           conferenceWithParticipations(findUnique(conferences, response.id))
      [] OTHER -> formatParticipation(findUnique(participations, response.id))

\* A submitted field and the fetched one are equal; a date is compared as
\* the instant it names, whatever the form of its text.
SameField(f, sent, got) ==
    IF f = "date" THEN NewDate(sent) = NewDate(got) ELSE sent = got

\* C11: after every accepted create request, the record fetched by the
\* returned id equals the request on every submitted field, an omitted
\* participation status is 'confirmed' and an omitted conference capacity
\* is 0.
C11_CreateThenFetchRoundTrip ==
    (response.op \in CreateOps /\ response.status = 201) =>
        LET sent == response.req
            got == FetchOfReplied IN
        /\ \A f \in DOMAIN sent : SameField(f, sent[f], got[f])
        /\ (response.op = "createParticipation" /\ ~Has(sent, "status"))
              => got.status = T_confirmed
        /\ (response.op = "createConference" /\ ~Has(sent, "capacity"))
              => got.capacity = 0

(***************************************************************************)
(* Sort order of the list routes (specification SpecList).                 *)
(***************************************************************************)
\* The request of the last list reply, with the other sort order.
OtherOrder(op, query) ==
    Join(query, Only("sortOrder",
                     IF SortOrderOf(op, query) = "asc" THEN "desc" ELSE "asc"))

\* The rows the filter of the last list request selects have pairwise
\* distinct values in the sort column.
SortKeysDistinct ==
    LET table == TableOf(response.op)
        ids == Matching(table, WhereOf(response.op, response.query))
        key == SortByOf(response.op, response.query) IN
    \A i, j \in ids : i # j => table[i][key] # table[j][key]

\* A sorted list reply whose first page covers the whole filtered set.
WholeSetSorted ==
    /\ IsListReply
    /\ response.op # "getParticipationsWithJoin"
    /\ response.status = 200
    /\ PageNum(response.query) = Num(1)
    /\ AtLeastOne(LimitNum(response.query))
    /\ LimitNum(response.query).v >= response.pagination.total
    /\ SortKeysDistinct

\* C12: over the same store and filter, with a limit that covers the whole
\* filtered set and pairwise distinct sort keys, the list returned for one
\* sort order is the reverse of the list returned for the other.
C12_AscendingIsReverseOfDescending ==
    WholeSetSorted =>
        \A rows \in FindMany(TableOf(response.op),
                             ListFindMany(response.op,
                                 OtherOrder(response.op, response.query))) :
            response.data =
                Reverse([i \in 1..Len(rows) |-> Shape(response.op, rows[i])])

\* C12 witness: two scientists with distinct hIndex have been listed by
\* hIndex.
C12_Witness ==
    /\ WholeSetSorted
    /\ response.op = "getScientists"
    /\ Has(response.query, "sortBy")
    /\ response.query.sortBy = "hIndex"
    /\ Len(response.data) >= 2

(***************************************************************************)
(* Bulk status update (specification Spec).                                *)
(***************************************************************************)
\* The last request was a bulk status update.
BulkReplied == response.op = "bulkUpdateParticipations"

\* C13: a bulk status update without beforeDate sets status to newStatus on
\* exactly the participations whose conferenceId is the given id and whose
\* status is oldStatus, reports their number as 'updated', and leaves every
\* other participation, every other field and the other tables unchanged.
C13_BulkUpdateChangesExactlyTheMatchingRows ==
    [][(BulkReplied' /\ ~Has(response'.req, "beforeDate")) =>
        LET body == response'.req
            hit == { p \in DOMAIN participations :
                       /\ participations[p].conferenceId = body.conferenceId
                       /\ participations[p].status = body.oldStatus } IN
        /\ DOMAIN participations' = DOMAIN participations
        /\ \A p \in hit :
              participations'[p] =
                  [participations[p] EXCEPT !.status = body.newStatus]
        /\ \A p \in DOMAIN participations \ hit :
              participations'[p] = participations[p]
        /\ response'.updated = Cardinality(hit)
        /\ response'.status = 200
        /\ scientists' = scientists
        /\ conferences' = conferences]_vars

\* C13 witness: of two stored participations, a bulk update without
\* beforeDate has updated one and left the other.
C13_Witness ==
    /\ BulkReplied
    /\ ~Has(response.req, "beforeDate")
    /\ response.updated = 1
    /\ Cardinality(DOMAIN participations) = 2

\* C14: a bulk status update with beforeDate updates a matching
\* participation exactly when its conference's date is strictly earlier
\* than beforeDate; when the conference's date is equal to or later than
\* beforeDate, it updates 0 rows and changes nothing.
C14_BulkUpdateBeforeDateIsStrict ==
    [][(BulkReplied' /\ Has(response'.req, "beforeDate")) =>
        LET body == response'.req
            earlier == /\ body.conferenceId \in DOMAIN conferences
                       /\ conferences[body.conferenceId].date
                              < NewDate(body.beforeDate)
            matching == { p \in DOMAIN participations :
                            /\ participations[p].conferenceId = body.conferenceId
                            /\ participations[p].status = body.oldStatus } IN
        /\ earlier =>
              /\ response'.updated = Cardinality(matching)
              /\ \A p \in matching :
                    participations'[p].status = body.newStatus
        /\ ~earlier =>
              /\ response'.updated = 0
              /\ participations' = participations
        /\ scientists' = scientists
        /\ conferences' = conferences]_vars

\* C14 witness: a bulk update with beforeDate equal to the date of the
\* conference has updated nothing although a participation matched.
C14_Witness ==
    /\ BulkReplied
    /\ Has(response.req, "beforeDate")
    /\ response.updated = 0
    /\ response.req.conferenceId \in DOMAIN conferences
    /\ conferences[response.req.conferenceId].date
           = NewDate(response.req.beforeDate)
    /\ \E p \in DOMAIN participations :
          /\ participations[p].conferenceId = response.req.conferenceId
          /\ participations[p].status = response.req.oldStatus

(***************************************************************************)
(* GET, PUT and DELETE by id (specification Spec).                         *)
(***************************************************************************)
GetOps == {"getScientist", "getConference", "getParticipation"}

\* The table a single-record request addresses, and the entity's name.
TableOfReplied ==
    CASE response.op \in {"getScientist", "updateScientist",
                          "deleteScientist"} -> scientists
      [] response.op \in {"getConference", "updateConference",
                          "deleteConference"} -> conferences
      [] OTHER -> participations
NotFoundMessage ==
    CASE response.op \in {"getScientist", "updateScientist",
                          "deleteScientist"} -> "Scientist not found"
      [] response.op \in {"getConference", "updateConference",
                          "deleteConference"} -> "Conference not found"
      [] OTHER -> "Participation not found"

\* The reply of a GET /{id} agrees with the store it was computed from.
GetRepliesTheStoredRecord ==
    response.op \in GetOps =>
        IF response.id \in DOMAIN TableOfReplied
        THEN /\ response.status = 200
             /\ response.body = FetchOfReplied
             /\ \A f \in DOMAIN TableOfReplied[response.id] :
                   response.body[f] =
                       IF f = "date"
                       THEN toISOString(TableOfReplied[response.id][f])
                       ELSE TableOfReplied[response.id][f]
        ELSE /\ response.status = 404
             /\ response.body = NoBody
             /\ response.msg = NotFoundMessage

\* C15: GET /{id} of any entity is answered 200 with the stored record when
\* a row with that id is stored and 404 with '<Entity> not found' when none
\* is, and it never changes the store.
C15_GetByIdReturnsTheRecordOrNotFound ==
    /\ []GetRepliesTheStoredRecord
    /\ [][response'.op \in GetOps => UNCHANGED tables]_vars

\* C15 witness: a stored conference with a participation has been fetched.
C15_Witness ==
    /\ response.op = "getConference"
    /\ response.status = 200
    /\ response.body.participations # {}

WriteByIdOps ==
    {"updateScientist", "updateConference", "updateParticipation",
     "deleteScientist", "deleteConference", "deleteParticipation"}

\* The request of the next reply is a PUT or DELETE of an id that is not
\* stored.
MissingIdWritten ==
    /\ response'.op \in WriteByIdOps
    /\ response'.id \notin
          DOMAIN (CASE response'.op \in {"updateScientist", "deleteScientist"}
                         -> scientists
                    [] response'.op \in {"updateConference",
                                         "deleteConference"} -> conferences
                    [] OTHER -> participations)

\* C16: PUT /{id} or DELETE /{id} of an id that matches no stored row of the
\* entity is answered 404 and leaves the whole store unchanged.
C16_WriteOfMissingIdIsNotFound ==
    [][MissingIdWritten =>
          /\ response'.status = 404
          /\ response'.msg = NotFoundMessage'
          /\ UNCHANGED tables]_vars

\* C16 witness: the PUT of a conference id that is not stored has been
\* answered 404 while another conference is stored.
C16_Witness ==
    /\ response.op = "updateConference"
    /\ response.status = 404
    /\ response.id \notin DOMAIN conferences
    /\ DOMAIN conferences # {}

(***************************************************************************)
(* The search route (specification SpecList).                              *)
(***************************************************************************)
\* C17: a GET request to /participations/search with a non-empty q is
\* served by the metadata search operation: it is answered 200 with a
\* pagination object that holds page and limit only.
C17_SearchIsServedByTheSearchOperation ==
    (/\ Has(response, "path")
     /\ response.path = T_search
     /\ Has(response.query, "q")
     /\ response.query.q # <<>>) =>
        /\ response.op = "searchParticipations"
        /\ response.status = 200
        /\ DOMAIN response.pagination = {"page", "limit"}

(***************************************************************************)
(* Shape of the participation replies (specification SpecList).            *)
(***************************************************************************)
\* C18: every row of a /participations/with-details reply carries a
\* scientist object with exactly id, fullName, country, specialization and
\* hIndex and a conference object with exactly id, name, topic, date and
\* location, taken from the rows the participation references, the date
\* as the ISO-8601 text of the stored instant.
C18_WithDetailsExposesTheAllowedFields ==
    (response.op = "getParticipationsWithJoin" /\ response.status = 200) =>
        \A i \in 1..Len(response.data) :
            LET row == response.data[i]
                p == participations[row.id]
                sc == scientists[p.scientistId]
                co == conferences[p.conferenceId] IN
            /\ DOMAIN row.scientist =
                  {"id", "fullName", "country", "specialization", "hIndex"}
            /\ \A f \in DOMAIN row.scientist : row.scientist[f] = sc[f]
            /\ DOMAIN row.conference =
                  {"id", "name", "topic", "date", "location"}
            /\ \A f \in DOMAIN row.conference \ {"date"} :
                  row.conference[f] = co[f]
            /\ row.conference.date = IsoText(co.date, TRUE)

\* C18 witness: a with-details reply holds a row whose scientist has an
\* email stored, which the reply does not expose.
C18_Witness ==
    /\ response.op = "getParticipationsWithJoin"
    /\ response.status = 200
    /\ \E i \in 1..Len(response.data) :
          LET p == participations[response.data[i].id] IN
          /\ scientists[p.scientistId].email # NULL
          /\ response.data[i].scientist.id = p.scientistId

(***************************************************************************)
(* Metadata of the participation replies (specification Spec).             *)
(***************************************************************************)
\* Values the metadata column can hold: SQL NULL, documents, a JSON string.
MetadataValues == {JNull, M_Rating, M_Tags, JString(<<"r", "5">>)}

\* The metadata a reply must carry for a stored value.
ExposedMetadata(stored) == IF stored.t = "object" THEN stored ELSE JNull

StatsCountries == { conferences[id].country : id \in DOMAIN conferences }

StatsEntryIsRight(e) ==
    LET ids == { id \in DOMAIN conferences :
                   conferences[id].country = e.country }
        n == Cardinality(ids)
        sum == SumCapacity(ids) IN
    /\ e.totalConferences = n
    /\ e.totalParticipations =
         Cardinality({ p \in DOMAIN participations :
                         participations[p].conferenceId \in ids })
    /\ 2 * e.avgCapacity * n - 2 * sum \in (0 - n)..n
    /\ DOMAIN e.topicDistribution = { conferences[id].topic : id \in ids }
    /\ \A topic \in DOMAIN e.topicDistribution :
          e.topicDistribution[topic] =
              Num(Cardinality({ id \in ids : conferences[id].topic = topic }))

\* C20: the reply of GET /conferences/stats has one entry per distinct
\* country of the stored conferences, and each entry carries the number of
\* the country's conferences, the number of participations over them, the
\* mean capacity rounded to a nearest integer, and a topicDistribution that
\* maps each topic to the number of the country's conferences with it.
C20_StatsDescribeEachCountry ==
    response.op = "getConferenceStats" =>
        /\ { e.country : e \in response.body } = StatsCountries
        /\ Cardinality(response.body) = Cardinality(StatsCountries)
        /\ \A e \in response.body : StatsEntryIsRight(e)

(***************************************************************************)
(* Failed and successful writes by id (specification Spec).                *)
(***************************************************************************)
\* C21: a PUT /{id} or DELETE /{id} whose store operation fails, for a
\* missing id, a restricted delete or a foreign key to a row that is not
\* stored, is answered 404 with '<Entity> not found' and leaves the whole
\* store unchanged.
C21_FailedWriteIsNotFoundAndChangesNothing ==
    [][(response'.op \in WriteByIdOps /\ response'.err # "None") =>
          /\ response'.status = 404
          /\ response'.msg = NotFoundMessage'
          /\ response'.body = NoBody
          /\ UNCHANGED tables]_vars

\* C21 witness: the PUT of a stored participation naming a scientist that
\* is not stored has been refused by the store.
C21_Witness ==
    /\ response.op = "updateParticipation"
    /\ response.err = "ConstraintViolation"
    /\ response.id \in DOMAIN participations
    /\ response.req.scientistId \notin DOMAIN scientists
    /\ response.status = 404

\* Every stored row carries the id it is stored under, below the next value
\* of the entity's id sequence.
IdsAreUnique ==
    /\ \A i \in DOMAIN scientists :
          scientists[i].id = i /\ i < nextScientistId
    /\ \A i \in DOMAIN conferences :
          conferences[i].id = i /\ i < nextConferenceId
    /\ \A i \in DOMAIN participations :
          participations[i].id = i /\ i < nextParticipationId

\* The rows stored before the step are stored after it, with their ids.
IdsAreKept ==
    /\ \A i \in DOMAIN scientists :
          i \in DOMAIN scientists' /\ scientists'[i].id = scientists[i].id
    /\ \A i \in DOMAIN conferences :
          i \in DOMAIN conferences' /\ conferences'[i].id = conferences[i].id
    /\ \A i \in DOMAIN participations :
          /\ i \in DOMAIN participations'
          /\ participations'[i].id = participations[i].id

\* C22: in every reachable store no two rows of one entity share an id, and
\* no PUT and no bulk update changes the id of a stored row.
C22_IdsAreUniqueAndImmutable ==
    /\ []IdsAreUnique
    /\ [][response'.op \in {"updateScientist", "updateConference",
                            "updateParticipation",
                            "bulkUpdateParticipations"} => IdsAreKept]_vars

\* C22 witness: a PUT whose body named another id has updated a stored
\* scientist while a second scientist is stored.
C22_Witness ==
    /\ response.op = "updateScientist"
    /\ response.status = 200
    /\ response.id # MaxScientists
    /\ scientists[response.id].hIndex = 3
    /\ Cardinality(DOMAIN scientists) = 2

(***************************************************************************)
(* Totals and filters of the list routes (specification SpecList).         *)
(***************************************************************************)
\* The filter parameters of a list route.
FilterFields(op) ==
    CASE op = "getScientists" -> {"search"}
      [] op = "getConferences" -> {"country", "topic"}
      [] op = "getParticipations" ->
           {"participationType", "status", "scientistId", "conferenceId"}
      [] OTHER -> {"participationType"}

\* The request without its page, limit and sort parameters.
FiltersOnly(op, query) ==
    [f \in DOMAIN query \cap FilterFields(op) |-> query[f]]

\* C23: in every list response the count query carries the where clause of
\* the page query and total is the number of stored rows that satisfy it;
\* total depends on the store and the filters only, not on page or limit.
C23_TotalCountsTheFilteredRecords ==
    (IsListReply /\ response.status = 200) =>
        /\ Len(issued) = 2
        /\ issued[1].query = "findMany"
        /\ issued[2].query = "count"
        /\ issued[2].where = issued[1].where
        /\ response.pagination.total =
              Cardinality(Matching(TableOf(response.op), issued[1].where))
        /\ response.pagination.total =
              Cardinality(Matching(TableOf(response.op),
                  WhereOf(response.op,
                          FiltersOnly(response.op, response.query))))

\* C23 witness: the second page of a filtered list, where the filter
\* matches some but not all stored rows and the page holds fewer than total.
C23_Witness ==
    /\ response.op = "getParticipations"
    /\ response.status = 200
    /\ Has(response.query, "participationType")
    /\ Has(response.query, "page")
    /\ response.pagination.total >= 2
    /\ response.pagination.total < Cardinality(DOMAIN participations)
    /\ Len(response.data) = 1

TextFilters(op) ==
    CASE op = "getConferences" -> {"country", "topic"}
      [] op = "getParticipations" -> {"participationType", "status"}
      [] OTHER -> {"participationType"}
NumericFilters(op) ==
    IF op = "getParticipations" THEN {"scientistId", "conferenceId"} ELSE {}

\* The row passes every filter the request supplies: a text filter is a
\* case-insensitive substring of the row's field, a numeric filter is the
\* decimal text of the row's field.
PassesSuppliedFilters(op, row, query) ==
    /\ \A f \in DOMAIN query \cap TextFilters(op) :
          Contains(row[f], query[f])
    /\ \A f \in DOMAIN query \cap NumericFilters(op) :
          IsIntegerText(query[f]) /\ parseInt(query[f]) = Num(row[f])

\* C24: a list of conferences or participations whose page covers the
\* whole result returns exactly the stored records that pass every filter
\* the request supplies; a filter that is absent excludes none.
C24_ListReturnsExactlyTheRecordsPassingTheFilters ==
    (/\ response.op \in {"getConferences", "getParticipations",
                         "getParticipationsWithJoin"}
     /\ response.status = 200
     /\ ~Has(response.query, "page")
     /\ ~Has(response.query, "limit")) =>
        { response.data[i].id : i \in 1..Len(response.data) } =
            { i \in DOMAIN TableOf(response.op) :
                PassesSuppliedFilters(response.op, TableOf(response.op)[i],
                                      response.query) }

UpdateOps == {"updateScientist", "updateConference", "updateParticipation"}

\* The value a PUT stores for a field of its body: a date text is stored as
\* its instant.
StoredValue(f, body) == IF f = "date" THEN NewDate(body[f]) ELSE body[f]

\* The step changes, in the table, the row under id in the fields of the
\* body alone, to the body's values.
OnlyTheBodyFieldsChange(table, tableAfter, id, body) ==
    /\ DOMAIN tableAfter = DOMAIN table
    /\ \A i \in DOMAIN table \ {id} : tableAfter[i] = table[i]
    /\ DOMAIN tableAfter[id] = DOMAIN table[id]
    /\ \A f \in DOMAIN table[id] :
          tableAfter[id][f] =
              IF Has(body, f) THEN StoredValue(f, body) ELSE table[id][f]

\* C26: a PUT /{id} answered 200 changes, on the row with that id, the
\* fields present in the body to the body's values and no other field; every
\* other row of every entity and every id sequence stay as they were.
C26_UpdateChangesOnlyTheFieldsOfTheBody ==
    [][(response'.op \in UpdateOps /\ response'.status = 200) =>
          /\ response'.op = "updateScientist" =>
                /\ OnlyTheBodyFieldsChange(scientists, scientists',
                                           response'.id, response'.req)
                /\ UNCHANGED <<conferences, participations>>
          /\ response'.op = "updateConference" =>
                /\ OnlyTheBodyFieldsChange(conferences, conferences',
                                           response'.id, response'.req)
                /\ UNCHANGED <<scientists, participations>>
          /\ response'.op = "updateParticipation" =>
                /\ OnlyTheBodyFieldsChange(participations, participations',
                                           response'.id, response'.req)
                /\ UNCHANGED <<scientists, conferences>>
          /\ UNCHANGED <<nextScientistId, nextConferenceId,
                         nextParticipationId>>]_vars

\* C26 witness: a PUT of hIndex and organization has been applied to a
\* scientist stored with an email, next to another stored scientist.
C26_Witness ==
    /\ response.op = "updateScientist"
    /\ response.status = 200
    /\ DOMAIN response.req = {"hIndex", "organization"}
    /\ scientists[response.id].hIndex = response.req.hIndex
    /\ scientists[response.id].email = T_Mail
    /\ Cardinality(DOMAIN scientists) = 2

(***************************************************************************)
(* Requests in progress (specification SpecConcurrent).                    *)
(***************************************************************************)
\* The replies of a list handler whose two queries both run on the store
\* as it is now.
RepliesOnThisStore(op, query) ==
    { ListReply(op, 200, query,
                [i \in 1..Len(rows) |-> Shape(op, rows[i])],
                Pagination(PageNum(query), LimitNum(query),
                           Cardinality(Matching(TableOf(op),
                                                WhereOf(op, query))))) :
        rows \in FindMany(TableOf(op), ListFindMany(op, query)) }

RECURSIVE SumOfCounts(_, _)
SumOfCounts(distribution, topics) ==
    IF topics = {} THEN 0
    ELSE LET topic == CHOOSE t \in topics : TRUE IN
         distribution[topic].v + SumOfCounts(distribution, topics \ {topic})

\* C27: in every entry of a reply of GET /conferences/stats whose topics
\* are ordinary keys, the values of topicDistribution are numbers and sum
\* to totalConferences, whatever other requests wrote between the group-by
\* query and the detail queries.
C27_TopicDistributionSumsToTotalConferences ==
    response.op = "getConferenceStats" =>
        \A e \in response.body :
            DOMAIN e.topicDistribution \cap ObjectPrototypeKeys = {} =>
                /\ \A topic \in DOMAIN e.topicDistribution :
                      IsNum(e.topicDistribution[topic])
                /\ SumOfCounts(e.topicDistribution,
                               DOMAIN e.topicDistribution)
                      = e.totalConferences

Max(a, b) == IF a > b THEN a ELSE b

\* C28: in every list reply the number of records in data is
\* min(limit, max(0, total - (page - 1) * limit)), whatever other requests
\* created or deleted while the list request was in progress.
C28_DataLengthAgreesWithTotal ==
    (response.op \in ListOps /\ response.status = 200) =>
        LET page == response.pagination.page.v
            limit == response.pagination.limit.v
            total == response.pagination.total IN
        Len(response.data) = Min(limit, Max(0, total - (page - 1) * limit))

====
